---- MODULE Spec2Model ----
(***************************************************************************)
(* Model of the Charm++ chare group inciter::Partitioner                   *)
(* (src/src/Inciter/Partitioner.h): distribution of the chares' node lists *)
(* to their owner PEs (SpecDist), the owner function pe() (SpecMap),       *)
(* reordering of global mesh node IDs, the request/neworder exchange and   *)
(* the lower/upper bound hand-off (Spec, FairSpec).                        *)
(*                                                                         *)
(* One Partitioner object lives on every PE.  Entry methods run to         *)
(* completion; messages between two PEs travel on a FIFO channel.  The     *)
(* host (Conductor) and the SDAG code generated from partitioner.ci are    *)
(* not part of the sources and are modelled from the specification.        *)
(***************************************************************************)
EXTENDS Integers, Sequences, FiniteSets, TLC

\* Bounds of the model
MaxPes == 3          \* CkNumPes() ranges over 1..MaxPes
MaxChare == 3        \* m_nchare ranges over CkNumPes()..MaxChare
MaxNode == 6         \* old (file) node IDs are 0..MaxNode-1
MaxUnits == 8        \* m_nchare of a single call of pe() ranges over 1..MaxUnits

\* Number of nodes of a tetrahedron (the loop bound of chareNodes)
NodesPerElem == 4

VARIABLES
  npes,          \* CkNumPes()
  m_nchare,      \* total number of chares across all PEs
  hostnodes,     \* Conductor: old node IDs contributed by each PE
  started,       \* PE has received reorder() from the host
  m_node,        \* PE -> chare -> vector of node IDs
  m_id,          \* PE -> vector of unique node IDs
  m_newid,       \* PE -> map old ID -> new ID
  m_reordered,   \* PE -> number of nodes reordered
  m_req,         \* PE -> queue of <<requesting PE, set of old IDs>>
  m_chcid,       \* PE -> chare -> map new ID -> old ID
  m_lower,       \* PE -> lower bound
  m_upper,       \* PE -> upper bound
  m_cost,        \* PE -> <<compts, ownpts+compts>>
  sdag,          \* PE -> SDAG when-clause and trigger counters
  chan,          \* <<from PE, to PE>> -> FIFO of messages in flight
  hist,          \* PE -> record of what its handlers did so far
  aborted,       \* an exception (tk::val_find miss) ended the run
  m_npe,         \* PE -> number of fellow PEs that still owe a recv()
  m_tetinpoel,   \* PE -> connectivity of its chunk of the mesh, 4 IDs/element
  geomPartMesh,  \* PE -> chare of each element of its chunk (partitioner)
  dist,          \* PE -> record of what partition(), add(), recv() did
  pecall,        \* a single call pe( id ): its argument and its outcome
  nrun           \* number of entry methods the scheduler has run so far

vars == << npes, m_nchare, hostnodes, started, m_node, m_id, m_newid,
           m_reordered, m_req, m_chcid, m_lower, m_upper, m_cost, sdag,
           chan, hist, aborted, m_npe, m_tetinpoel, geomPartMesh,
           dist, pecall, nrun >>

----------------------------------------------------------------------------
\* Generic helpers

Range(f) == { f[x] : x \in DOMAIN f }

MinOf(S) == CHOOSE m \in S : \A x \in S : m <= x

MaxOf(S) == CHOOSE m \in S : \A x \in S : x <= m

EmptyMap == [x \in {} |-> 0]

\* std::unordered_map operator[] assignment: m[k] = v
Put(m, k, v) == [x \in (DOMAIN m) \cup {k} |-> IF x = k THEN v ELSE m[x]]

\* A log of events without their order: event -> number of occurrences
Logged(b, e) ==
  [ x \in (DOMAIN b) \cup {e} |->
      IF x = e THEN (IF e \in DOMAIN b THEN b[e] + 1 ELSE 1) ELSE b[x] ]

RECURSIVE LogSum(_, _)
LogSum(b, S) ==
  IF S = {} THEN 0
  ELSE LET e == CHOOSE x \in S : TRUE IN b[e] + LogSum(b, S \ {e})

\* Number of logged events e with P(e)
CountIn(b, P(_)) == LogSum(b, { e \in DOMAIN b : P(e) })

\* Number of logged events
LogSize(b) == LogSum(b, DOMAIN b)

\* std::sort: the entries in ascending order, equal entries kept
RECURSIVE sorted(_)
sorted(v) ==
  IF v = << >> THEN << >>
  ELSE LET m == MinOf(Range(v))
           i == CHOOSE k \in DOMAIN v :
                  v[k] = m /\ \A j \in 1 .. (k - 1) : v[j] # m
       IN  << m >> \o sorted(SubSeq(v, 1, i - 1) \o SubSeq(v, i + 1, Len(v)))

\* std::unique and erase: of each run of equal adjacent entries one is kept
RECURSIVE eraseAdjacent(_)
eraseAdjacent(v) ==
  IF Len(v) <= 1 THEN v
  ELSE IF v[1] = v[2] THEN eraseAdjacent(Tail(v))
       ELSE << v[1] >> \o eraseAdjacent(Tail(v))

\* tk::unique: sort the vector and erase adjacent duplicates
unique(v) == eraseAdjacent(sorted(v))

----------------------------------------------------------------------------
\* Linear distribution of chares to PEs

\* chareDistribution(): <<chunksize, mynchare>> of PE p
chareDistribution(p, n, nc) ==
  LET chunksize == nc \div n
  IN  << chunksize, IF p = n - 1 THEN chunksize + (nc % n) ELSE chunksize >>

\* Chare IDs owned by PE p: CkMyPe() * chunksize + c, c in [0, mynchare)
OwnedChares(p, n, nc) ==
  LET d == chareDistribution(p, n, nc)
  IN  { p * d[1] + c : c \in 0 .. (d[2] - 1) }

----------------------------------------------------------------------------
\* Inputs: a strip mesh of tetrahedra and its partition into chares

\* Number of tetrahedra of the mesh: element e connects nodes e..e+3
NumElems == MaxNode - NodesPerElem + 1

\* m_tetinpoel of element e
Tet(e) == << e, e + 1, e + 2, e + 3 >>

\* Partitions of the elements into nc chares that leave no chare empty
\* (flatten() asserts that m_node has an entry for every owned chare)
Partitions(nc) ==
  { che \in [ 0 .. (NumElems - 1) -> 0 .. (nc - 1) ] :
      \A c \in 0 .. (nc - 1) : \E e \in 0 .. (NumElems - 1) : che[e] = c }

\* Node list of chare c after distribution: the nodes of its elements
RECURSIVE ChareList(_, _, _)
ChareList(che, c, e) ==
  IF e >= NumElems THEN << >>
  ELSE (IF che[e] = c THEN Tet(e) ELSE << >>) \o ChareList(che, c, e + 1)

RECURSIVE Concat(_, _)
Concat(f, S) ==
  IF S = {} THEN << >>
  ELSE LET c == MinOf(S) IN f[c] \o Concat(f, S \ {c})

\* flatten(): m_id = unique( concatenation of all vectors of m_node )
flatten(node) == unique(Concat(node, DOMAIN node))

----------------------------------------------------------------------------
\* Host (Conductor): start offsets and communication maps of reorder()

PEs == 0 .. (npes - 1)

AllOldIds == UNION { hostnodes[p] : p \in PEs }

TotalNodes == Cardinality(AllOldIds)

\* Lowest-rank PE that contributes to old node ID i
Owner(i) == MinOf({ p \in PEs : i \in hostnodes[p] })

\* Starting new ID of PE p: number of IDs owned by PEs of lower rank
hostN(p) == Cardinality({ i \in AllOldIds : Owner(i) < p })

\* Communication map of PE p: owner PE -> IDs of p that the owner assigns
hostComm(p) ==
  LET peers == { Owner(i) : i \in hostnodes[p] } \ {p}
  IN  [ q \in peers |-> { i \in hostnodes[p] : Owner(i) = q } ]

----------------------------------------------------------------------------
\* Local state of one PE as seen by its member functions

PeState(p) ==
  [ pe |-> p, node |-> m_node[p], id |-> m_id[p], newid |-> m_newid[p],
    reordered |-> m_reordered[p], req |-> m_req[p], chcid |-> m_chcid[p],
    lower |-> m_lower[p], upper |-> m_upper[p], cost |-> m_cost[p],
    sdag |-> sdag[p], hist |-> hist[p], npe |-> m_npe[p], dist |-> dist[p],
    out |-> << >>, err |-> FALSE ]

\* Group::thisProxy[ dest ].entry( ... ): queue an outgoing message
Send(s, dest, msg) == [s EXCEPT !.out = Append(@, << dest, msg >>)]

RECURSIVE Deliverable(_, _, _)
Deliverable(ch, src, out) ==
  IF out = << >> THEN ch
  ELSE Deliverable([ch EXCEPT ![<< src, Head(out)[1] >>] =
                                 Append(@, Head(out)[2])],
                   src, Tail(out))

----------------------------------------------------------------------------
\* SDAG code of partitioner.ci:
\*   wait4prep:   when trigger_reorderowned_complete(), trigger_nodes_requested()
\*                serial { prepare(); }
\*   wait4bounds: when trigger_lower(), trigger_upper() serial { create(); }
\* A trigger that finds no active when-clause is buffered; a when-clause that
\* finds its triggers buffered runs its serial block at once.

\* cost() dividing by the number of own points
costOverOwn(id, low, up) ==
  LET ownpts == Cardinality({ k \in DOMAIN id : id[k] >= low /\ id[k] < up })
      compts == Cardinality({ k \in DOMAIN id : ~(id[k] >= low /\ id[k] < up) })
  IN  << compts, ownpts >>

\* cost(): <<compts, ownpts+compts>>, the numerator and denominator of the
\* returned quotient
cost(id, low, up) ==
  LET ownpts == Cardinality({ k \in DOMAIN id : id[k] >= low /\ id[k] < up })
      compts == Cardinality({ k \in DOMAIN id : ~(id[k] >= low /\ id[k] < up) })
  IN  << compts, ownpts + compts >>

\* create(), as far as the Partitioner's own state goes: signal2host_avecost
\* stores m_cost = cost( m_lower, m_upper )
create(s) ==
  [s EXCEPT !.cost = cost(s.id, s.lower, s.upper),
            !.hist.ncreate = @ + 1]

tryBounds(s) ==
  IF s.sdag.w_bnd > 0 /\ s.sdag.t_low > 0 /\ s.sdag.t_up > 0
  THEN create([s EXCEPT !.sdag.w_bnd = @ - 1, !.sdag.t_low = @ - 1,
                        !.sdag.t_up = @ - 1])
  ELSE s

wait4bounds(s) == tryBounds([s EXCEPT !.sdag.w_bnd = @ + 1])

trigger_lower(s) == tryBounds([s EXCEPT !.sdag.t_low = @ + 1])

trigger_upper(s) == tryBounds([s EXCEPT !.sdag.t_up = @ + 1])

\* Variant of replyMap: the old IDs are sent back
replyOld(newid, r) == [ p \in r[2] |-> p ]

\* The neworder() argument built for one queued request r = <<pe, ids>>:
\* n[ p ] = tk::val_find( m_newid, p ) for every requested p
replyMap(newid, r) == [ p \in r[2] |-> newid[p] ]

RECURSIVE answer(_, _)
answer(s, k) ==
  IF k > Len(s.req) THEN s
  ELSE LET r == s.req[k]
       IN  IF ~(r[2] \subseteq DOMAIN s.newid)
           THEN [s EXCEPT !.err = TRUE]
           ELSE LET msg == [ type |-> "neworder", id |-> replyMap(s.newid, r) ]
                IN  answer([Send(s, r[1], msg) EXCEPT
                              !.hist.repSent = Logged(@, << r[1], msg.id >>),
                              !.hist.repCtx =
                                 Logged(@, << r, msg.id,
                                              [ p \in r[2] |-> s.newid[p] ] >>)],
                           k + 1)

\* Variant of clearReq: the queue is not cleared
keepReq(req) == req

\* m_req.clear()
clearReq(req) == << >>

RECURSIVE prepare(_)

tryPrep(s) ==
  IF s.sdag.w_prep > 0 /\ s.sdag.t_owned > 0 /\ s.sdag.t_req > 0
  THEN prepare([s EXCEPT !.sdag.w_prep = @ - 1, !.sdag.t_owned = @ - 1,
                         !.sdag.t_req = @ - 1])
  ELSE s

wait4prep(s) == tryPrep([s EXCEPT !.sdag.w_prep = @ + 1])

trigger_reorderowned_complete(s) == tryPrep([s EXCEPT !.sdag.t_owned = @ + 1])

trigger_nodes_requested(s) == tryPrep([s EXCEPT !.sdag.t_req = @ + 1])

\* prepare(): answer every queued request, clear the queue, re-arm the wait
prepare(s) ==
  LET a == answer([s EXCEPT !.hist.nprepare = @ + 1], 1)
      run == << Len(s.req), Len(a.out) - Len(s.out),
                a.newid = s.newid /\ a.reordered = s.reordered >>
  IN  IF a.err THEN a
      ELSE trigger_reorderowned_complete(
             wait4prep([a EXCEPT !.req = clearReq(@),
                                 !.hist.prep = Logged(@, run)]))

----------------------------------------------------------------------------
\* Bounds

\* Variant of keepLarger: m_upper is never raised
keepUpper(x, up) == up

\* if (x->first > m_upper) m_upper = x->first
keepLarger(x, up) == IF x > up THEN x ELSE up

\* Loop of bounds() over the chares of m_chcid (S: chares still to visit)
RECURSIVE maxKeyLoop(_, _, _)
maxKeyLoop(chcid, S, up) ==
  IF S = {} THEN up
  ELSE LET c == MinOf(S)
           x == MaxOf(DOMAIN chcid[c])
       IN  maxKeyLoop(chcid, S \ {c}, keepLarger(x, up))

\* Variant of lastPeCorrection: every PE increments its upper bound
everyPeCorrection(p, up) == up + 1

\* bounds() without ++m_upper
noPeCorrection(p, up) == up

\* if (CkMyPe() == CkNumPes()-1) ++m_upper
lastPeCorrection(p, up) == IF p = npes - 1 THEN up + 1 ELSE up

\* Variant of lowerOfNext: one past the sender's upper bound is sent
lowerOfNextPlusOne(s) == s.upper + 1

\* Argument of the lower() message sent to PE+1
lowerOfNext(s) == s.upper

\* Variant of lower(): the value is stored as upper bound as well
lowerSetsUpper(s, low) ==
  trigger_lower([s EXCEPT !.lower = low, !.upper = low, !.hist.nlower = @ + 1])

\* lower(): store the lower bound and trigger the SDAG wait
lower(s, low) ==
  trigger_lower([s EXCEPT !.lower = low, !.hist.nlower = @ + 1])

bounds(s) ==
  LET up == lastPeCorrection(s.pe, maxKeyLoop(s.chcid, DOMAIN s.chcid, 0))
      s1 == trigger_upper([s EXCEPT !.upper = up, !.hist.nbounds = @ + 1,
                                    !.hist.repAtBounds = s.hist.repRecv])
      s2 == IF s.pe = 0 THEN lower(s1, 0) ELSE s1
  IN  IF s.pe < npes - 1
      THEN [Send(s2, s.pe + 1, [ type |-> "lower", low |-> lowerOfNext(s2) ])
              EXCEPT !.hist.lowSent = Logged(@, << s.pe + 1, lowerOfNext(s2) >>)]
      ELSE s2

----------------------------------------------------------------------------
\* Reordering

\* Variant of chcidEntry: the value is taken after m_node was rewritten
chcidEntryNew(newid, p) == << newid[p], newid[p] >>

\* One entry written into m_chcid[c] for node p: m[ val_find(m_newid,p) ] = p
chcidEntry(newid, p) == << newid[p], p >>

RECURSIVE chcidLoop(_, _, _, _)
chcidLoop(m, lst, newid, k) ==
  IF k > Len(lst) THEN m
  ELSE LET e == chcidEntry(newid, lst[k])
       IN  chcidLoop(Put(m, e[1], e[2]), lst, newid, k + 1)

\* reordered(): build m_chcid, rewrite m_node and m_id to new IDs, bounds()
reordered(s) ==
  IF \E c \in DOMAIN s.node : ~(Range(s.node[c]) \subseteq DOMAIN s.newid)
     \/ ~(Range(s.id) \subseteq DOMAIN s.newid)
  THEN [s EXCEPT !.err = TRUE, !.hist.nreordered = @ + 1]
  ELSE bounds(
    [s EXCEPT
       !.chcid = [ c \in (DOMAIN s.chcid) \cup (DOMAIN s.node) |->
                     IF c \in DOMAIN s.node
                     THEN chcidLoop(IF c \in DOMAIN s.chcid THEN s.chcid[c]
                                    ELSE EmptyMap, s.node[c], s.newid, 1)
                     ELSE s.chcid[c] ],
       !.node = [ c \in DOMAIN s.node |->
                    [ k \in DOMAIN s.node[c] |-> s.newid[s.node[c][k]] ] ],
       !.id = [ k \in DOMAIN s.id |-> s.newid[s.id[k]] ],
       !.hist.nreordered = @ + 1,
       !.hist.old = s.node,
       !.hist.oldid = s.id,
       !.hist.atReordered = s.newid ])

\* Range [first,last) the own lambda hands to std::any_of: both iterators
\* are comm.cbegin(), so no entry of comm is visited
ownRange(comm) == {}

\* own lambda of reorder() without its negation
ownNotNegated(comm, p) == \E q \in ownRange(comm) : p \in comm[q]

\* own lambda of reorder()
own(comm, p) == ~(\E q \in ownRange(comm) : p \in comm[q])

\* for (auto& p : m_id) if (own(p)) { m_newid[ p ] = n++; ++m_reordered; }
RECURSIVE assignLoop(_, _, _, _)
assignLoop(s, comm, n, k) ==
  IF k > Len(s.id) THEN s
  ELSE LET p == s.id[k]
       IN  IF own(comm, p)
           THEN assignLoop([s EXCEPT !.newid = Put(@, p, n),
                                     !.reordered = @ + 1,
                                     !.hist.asg = Put(@, p, n)],
                           comm, n + 1, k + 1)
           ELSE assignLoop(s, comm, n, k + 1)

\* for (const auto& c : comm) thisProxy[ c.first ].request( CkMyPe(), c.second )
RECURSIVE sendRequests(_, _, _)
sendRequests(s, comm, S) ==
  IF S = {} THEN s
  ELSE LET q == MinOf(S)
           msg == [ type |-> "request", pe |-> s.pe, id |-> comm[q] ]
       IN  sendRequests([Send(s, q, msg) EXCEPT
                           !.hist.reqSent = Logged(@, << q, comm[q] >>)],
                        comm, S \ {q})

\* reorder( n, comm )
reorder(s, n, comm) ==
  LET s1 == wait4bounds(wait4prep(s))
      s2 == sendRequests(s1, comm, DOMAIN comm)
      s3 == assignLoop(s2, comm, n, 1)
      s4 == IF s3.err THEN s3 ELSE trigger_reorderowned_complete(s3)
  IN  IF ~s4.err /\ s4.reordered = Len(s4.id) THEN reordered(s4) ELSE s4

\* Variant of request(): the request is answered at once
requestAnswered(s, pe, id) ==
  prepare([s EXCEPT !.req = Append(@, << pe, id >>)])

\* request( pe, id )
request(s, pe, id) ==
  trigger_nodes_requested([s EXCEPT !.req = Append(@, << pe, id >>)])

\* m_newid after: for (const auto& p : id) m_newid[ p.first ] = p.second
storeNew(newid, id) ==
  [ x \in (DOMAIN newid) \cup (DOMAIN id) |->
      IF x \in DOMAIN id THEN id[x] ELSE newid[x] ]

\* Variant of neworder(): the received IDs are not counted
neworderUncounted(s, id) ==
  LET s1 == [s EXCEPT !.newid = storeNew(@, id)]
  IN  IF s1.reordered = Len(s1.id) THEN reordered(s1) ELSE s1

\* neworder( id )
neworder(s, id) ==
  LET s1 == [s EXCEPT !.newid = storeNew(@, id),
                      !.reordered = @ + Cardinality(DOMAIN id)]
  IN  IF s1.reordered = Len(s1.id) THEN reordered(s1) ELSE s1

----------------------------------------------------------------------------
\* Distribution of the node lists of the chares to the PEs that own them

\* readGraph(): global indices (m_gelemid) of the elements of PE p's chunk
gelemid(p, n) ==
  LET chunk == NumElems \div n
      from == p * chunk
      till == IF p = n - 1 THEN from + chunk + (NumElems % n) ELSE from + chunk
  IN  [ k \in 1 .. (till - from) |-> from + k - 1 ]

\* readGraph(): m_tetinpoel of PE p, the connectivity of the chunk's elements
RECURSIVE readElements(_, _)
readElements(g, k) ==
  IF k > Len(g) THEN << >> ELSE Tet(g[k]) \o readElements(g, k + 1)

\* c.push_back( m_tetinpoel[e*4+n] ) for n = 0, 1, 2 only
elemNodesShort(tet, e) ==
  [ n \in 1 .. (NodesPerElem - 1) |-> tet[e * NodesPerElem + n] ]

\* for (n=0; n<4; ++n) c.push_back( m_tetinpoel[e*4+n] ), e counted from 0
elemNodes(tet, e) ==
  [ n \in 1 .. NodesPerElem |-> tet[e * NodesPerElem + n] ]

\* operator[] of a map of vectors: a missing key reads as an empty vector
At(m, k) == IF k \in DOMAIN m THEN m[k] ELSE << >>

\* Loop of chareNodes() over the elements e, e+1, ... of the chunk
RECURSIVE chareNodesLoop(_, _, _, _)
chareNodesLoop(ch, tet, e, nodes) ==
  IF e >= Len(ch) THEN nodes
  ELSE LET c == ch[e + 1]
       IN  chareNodesLoop(ch, tet, e + 1,
                          Put(nodes, c, At(nodes, c) \o elemNodes(tet, e)))

\* chareNodes( che ): chare -> node IDs of the elements assigned to it
chareNodes(ch, tet) == chareNodesLoop(ch, tet, 0, EmptyMap)

\* The Assert and the ErrChk at the end of chareNodes() fail
chareNodesFails(nodes) ==
  \/ nodes = EmptyMap
  \/ \E c \in DOMAIN nodes : nodes[c] = << >>

\* pe() without: if (p >= CkNumPes()) p = CkNumPes()-1
noClampPe(q, n) == q

\* if (p >= CkNumPes()) p = CkNumPes()-1
clampPe(q, n) == IF q >= n THEN n - 1 ELSE q

\* ceil( a / b ) for positive b
Ceil(a, b) == (a + b - 1) \div b

\* pe( id ) dividing by the chunk size rounded up
peByCeiling(id, nc, n) == clampPe(id \div Ceil(nc, n), n)

\* pe( id ) for a non-zero chunk size m_nchare / CkNumPes()
pe(id, nc, n) == clampPe(id \div (nc \div n), n)

\* pe( id ) as called: its possible outcomes.  With m_nchare < CkNumPes() the
\* divisor m_nchare / CkNumPes() is 0 and the integer division is undefined:
\* the process is killed (SIGFPE) or the quotient reads as 0
peOutcomes(id, nc, n) ==
  IF nc \div n = 0
  THEN { [err |-> TRUE, p |-> 0], [err |-> FALSE, p |-> clampPe(0, n)] }
  ELSE { [err |-> FALSE, p |-> pe(id, nc, n)] }

\* std::unordered_map::insert( {k, v} ): no effect if the key is present
insert(m, k, v) == IF k \in DOMAIN m THEN m ELSE Put(m, k, v)

\* std::unordered_map::erase
erase(m, k) == [ x \in (DOMAIN m) \ {k} |-> m[x] ]

\* First loop of distribute(): move the owned entries of n to m_node;
\* the result is << m_node, n >>
RECURSIVE moveOwned(_, _, _, _, _, _)
moveOwned(node, n, p, chunksize, mynchare, c) ==
  IF c >= mynchare THEN << node, n >>
  ELSE LET chid == p * chunksize + c
       IN  IF chid \in DOMAIN n
           THEN moveOwned(insert(node, chid, n[chid]), erase(n, chid),
                          p, chunksize, mynchare, c + 1)
           ELSE moveOwned(node, n, p, chunksize, mynchare, c + 1)

\* Export map of distribute(): PE -> chare -> node IDs
exportMap(n, nc, np) ==
  [ q \in { pe(c, nc, np) : c \in DOMAIN n } |->
      [ c \in { d \in DOMAIN n : pe(d, nc, np) = q } |-> n[c] ] ]

\* for (const auto& p : exp) thisProxy[ p.first ].add( CkMyPe(), p.second )
RECURSIVE sendAdds(_, _, _)
sendAdds(s, exp, S) ==
  IF S = {} THEN s
  ELSE LET q == MinOf(S)
           s1 == Send(s, q, [type |-> "add", frompe |-> s.pe, n |-> exp[q]])
       IN  sendAdds([s1 EXCEPT !.dist.addSent = Logged(@, << q, exp[q] >>)],
                    exp, S \ {q})

\* Variant of signalIfRecvnodes: the signal does not wait for recvnodes()
signalAlways(s) == [s EXCEPT !.dist.nsignal = @ + 1]

\* if (recvnodes()) signal2host_distribution_complete( m_host )
signalIfRecvnodes(s) ==
  IF s.npe = 0 THEN [s EXCEPT !.dist.nsignal = @ + 1] ELSE s

\* distribute( n )
distribute(s, n) ==
  LET d == chareDistribution(s.pe, npes, m_nchare)
      kept == moveOwned(s.node, n, s.pe, d[1], d[2], 0)
      exp == exportMap(kept[2], m_nchare, npes)
      s1 == [s EXCEPT !.node = kept[1],
                      !.npe = Cardinality(DOMAIN exp),
                      !.dist.done = TRUE]
  IN  signalIfRecvnodes(sendAdds(s1, exp, DOMAIN exp))

\* partition( nchare ): distribute( chareNodes( che ) )
partition(s, ch, tet) ==
  LET nodes == chareNodes(ch, tet)
  IN  IF chareNodesFails(nodes) THEN [s EXCEPT !.err = TRUE]
      ELSE distribute([s EXCEPT !.dist.grouped = nodes], nodes)

\* Variant of flatten(): m_id is not made unique
flattenNotUnique(s) ==
  LET d == chareDistribution(s.pe, npes, m_nchare)
  IN  IF Cardinality(DOMAIN s.node) # d[2]
      THEN [s EXCEPT !.err = TRUE, !.dist.nflatten = @ + 1]
      ELSE [s EXCEPT !.id = @ \o Concat(s.node, DOMAIN s.node),
                     !.dist.nflatten = @ + 1]

\* flatten(), the entry method: the completeness check, then m_id is
\* extended by the node lists of m_node and made unique
flattenEntry(s) ==
  LET d == chareDistribution(s.pe, npes, m_nchare)
  IN  IF Cardinality(DOMAIN s.node) # d[2]
      THEN [s EXCEPT !.err = TRUE, !.dist.nflatten = @ + 1]
      ELSE [s EXCEPT !.id = unique(@ \o Concat(s.node, DOMAIN s.node)),
                     !.dist.nflatten = @ + 1]

\* All orders in which a loop can visit the keys S of an unordered map
Orders(S) ==
  { o \in [ 1 .. Cardinality(S) -> S ] : \A c \in S : \E k \in DOMAIN o : o[k] = c }

\* add() without its Assert
ownerUnchecked(c, p) == TRUE

\* Assert( pe(c.first) == CkMyPe(), ... ) of add()
ownerChecked(c, p) == pe(c, m_nchare, npes) = p

\* Loop of add() visiting the entries of n in the order ord: the Assert
\* ends the handler, entries visited before it are already appended
RECURSIVE addLoop(_, _, _, _)
addLoop(s, n, ord, k) ==
  IF k > Len(ord) THEN s
  ELSE LET c == ord[k]
       IN  IF ~ownerChecked(c, s.pe) THEN [s EXCEPT !.err = TRUE]
           ELSE addLoop([s EXCEPT !.node = Put(@, c, At(@, c) \o n[c])],
                        n, ord, k + 1)

\* add( frompe, n )
add(s, frompe, n, ord) ==
  LET s1 == addLoop(s, n, ord, 1)
  IN  IF s1.err THEN s1 ELSE Send(s1, frompe, [type |-> "recv"])

\* Variant of recv(): the acknowledgement is not counted
recvUncounted(s) == signalIfRecvnodes(s)

\* recv()
recv(s) == signalIfRecvnodes([s EXCEPT !.npe = @ - 1])

----------------------------------------------------------------------------
\* Initial state: every PE has flattened the node lists of its chares and
\* the host has collected the unique node IDs of all PEs

HistInit ==
  [ asg |-> EmptyMap, old |-> EmptyMap, oldid |-> << >>,
    atReordered |-> EmptyMap, nreordered |-> 0, nbounds |-> 0, nlower |-> 0, ncreate |-> 0,
    nprepare |-> 0, reqSent |-> EmptyMap, reqRecv |-> EmptyMap, repSent |-> EmptyMap,
    repRecv |-> EmptyMap, repAtBounds |-> EmptyMap, lowRecv |-> EmptyMap,
    lowSent |-> EmptyMap, prep |-> EmptyMap, repCtx |-> EmptyMap ]

SdagInit ==
  [ w_prep |-> 0, t_owned |-> 0, t_req |-> 0,
    w_bnd |-> 0, t_low |-> 0, t_up |-> 0 ]

\* No single call of pe() is looked at
NoCall == [id |-> 0, called |-> FALSE, err |-> FALSE, p |-> 0]

\* Nothing of the distribution has happened on a PE
DistInit ==
  [ done |-> FALSE, nsignal |-> 0, grouped |-> EmptyMap, addSent |-> EmptyMap,
    addRecv |-> EmptyMap, early |-> 0, nrecv |-> 0, nflatten |-> 0 ]

\* The mesh as read by readGraph() and partitioned by geomPartMesh(): part
\* maps each element of the mesh to its chare
MeshRead(n, part) ==
  /\ m_tetinpoel = [ p \in 0 .. (n - 1) |-> readElements(gelemid(p, n), 1) ]
  /\ geomPartMesh = [ p \in 0 .. (n - 1) |->
                        [ k \in DOMAIN gelemid(p, n) |-> part[gelemid(p, n)[k]] ] ]

Init ==
  \E n \in 1 .. MaxPes : \E nc \in n .. MaxChare :
  \E che \in Partitions(nc) :
    /\ npes = n
    /\ m_nchare = nc
    /\ m_node = [ p \in 0 .. (n - 1) |->
                    [ c \in OwnedChares(p, n, nc) |-> ChareList(che, c, 0) ] ]
    /\ m_id = [ p \in 0 .. (n - 1) |->
                  flatten([ c \in OwnedChares(p, n, nc) |-> ChareList(che, c, 0) ]) ]
    /\ hostnodes = [ p \in 0 .. (n - 1) |->
                       Range(flatten([ c \in OwnedChares(p, n, nc) |-> ChareList(che, c, 0) ])) ]
    /\ started = [ p \in 0 .. (n - 1) |-> FALSE ]
    /\ m_newid = [ p \in 0 .. (n - 1) |-> EmptyMap ]
    /\ m_reordered = [ p \in 0 .. (n - 1) |-> 0 ]
    /\ m_req = [ p \in 0 .. (n - 1) |-> << >> ]
    /\ m_chcid = [ p \in 0 .. (n - 1) |-> EmptyMap ]
    /\ m_lower = [ p \in 0 .. (n - 1) |-> 0 ]
    /\ m_upper = [ p \in 0 .. (n - 1) |-> 0 ]
    /\ m_cost = [ p \in 0 .. (n - 1) |-> << 0, 0 >> ]
    /\ sdag = [ p \in 0 .. (n - 1) |-> SdagInit ]
    /\ chan = [ c \in (0 .. (n - 1)) \X (0 .. (n - 1)) |-> << >> ]
    /\ hist = [ p \in 0 .. (n - 1) |-> HistInit ]
    /\ aborted = FALSE
    /\ nrun = 0
    /\ MeshRead(n, che)
    /\ pecall = NoCall
    /\ m_npe = [ p \in 0 .. (n - 1) |-> 0 ]
    \* the distribution is over; what its handlers did is not kept here
    /\ dist = [ p \in 0 .. (n - 1) |-> [DistInit EXCEPT !.done = TRUE] ]

----------------------------------------------------------------------------
\* Actions: one per entry method executed on a PE

\* Store the state a handler leaves on PE p and hand its messages to the
\* network; ch is the network after the handled message was taken out
Commit(p, s, ch) ==
  /\ m_node' = [m_node EXCEPT ![p] = s.node]
  /\ m_id' = [m_id EXCEPT ![p] = s.id]
  /\ m_newid' = [m_newid EXCEPT ![p] = s.newid]
  /\ m_reordered' = [m_reordered EXCEPT ![p] = s.reordered]
  /\ m_req' = [m_req EXCEPT ![p] = s.req]
  /\ m_chcid' = [m_chcid EXCEPT ![p] = s.chcid]
  /\ m_lower' = [m_lower EXCEPT ![p] = s.lower]
  /\ m_upper' = [m_upper EXCEPT ![p] = s.upper]
  /\ m_cost' = [m_cost EXCEPT ![p] = s.cost]
  /\ sdag' = [sdag EXCEPT ![p] = s.sdag]
  /\ hist' = [hist EXCEPT ![p] = s.hist]
  /\ chan' = Deliverable(ch, p, s.out)
  /\ aborted' = s.err
  /\ m_npe' = [m_npe EXCEPT ![p] = s.npe]
  /\ dist' = [dist EXCEPT ![p] = s.dist]
  /\ nrun' = nrun + 1
  /\ UNCHANGED << npes, m_nchare, hostnodes, m_tetinpoel, geomPartMesh, pecall >>

\* The host's reorder( n, comm ) arrives on PE p
Reorder(p) ==
  /\ ~aborted
  /\ ~started[p]
  /\ hostnodes[p] # {}     \* the host has the node IDs flatten() sent it
  /\ started' = [started EXCEPT ![p] = TRUE]
  /\ Commit(p, reorder(PeState(p), hostN(p), hostComm(p)), chan)

\* A request() sent by PE q arrives on PE p
RecvRequest(q, p) ==
  /\ ~aborted
  /\ chan[<< q, p >>] # << >>
  /\ Head(chan[<< q, p >>]).type = "request"
  /\ LET msg == Head(chan[<< q, p >>])
         s0 == [PeState(p) EXCEPT
                  !.hist.reqRecv = Logged(@, << q, msg.id >>)]
     IN  Commit(p, request(s0, msg.pe, msg.id),
                [chan EXCEPT ![<< q, p >>] = Tail(@)])
  /\ UNCHANGED started

\* A neworder() sent by PE q arrives on PE p
RecvNeworder(q, p) ==
  /\ ~aborted
  /\ chan[<< q, p >>] # << >>
  /\ Head(chan[<< q, p >>]).type = "neworder"
  /\ LET msg == Head(chan[<< q, p >>])
         s0 == [PeState(p) EXCEPT
                  !.hist.repRecv = Logged(@, << q, msg.id >>)]
     IN  Commit(p, neworder(s0, msg.id),
                [chan EXCEPT ![<< q, p >>] = Tail(@)])
  /\ UNCHANGED started

\* A lower() sent by PE q arrives on PE p
RecvLower(q, p) ==
  /\ ~aborted
  /\ chan[<< q, p >>] # << >>
  /\ Head(chan[<< q, p >>]).type = "lower"
  /\ LET msg == Head(chan[<< q, p >>])
         s0 == [PeState(p) EXCEPT
                  !.hist.lowRecv = Logged(@, << q, msg.low >>)]
     IN  Commit(p, lower(s0, msg.low),
                [chan EXCEPT ![<< q, p >>] = Tail(@)])
  /\ UNCHANGED started

Next ==
  \/ \E p \in PEs : Reorder(p)
  \/ \E q \in PEs, p \in PEs : RecvRequest(q, p)
  \/ \E q \in PEs, p \in PEs : RecvNeworder(q, p)
  \/ \E q \in PEs, p \in PEs : RecvLower(q, p)

Spec == Init /\ [][Next]_vars

----------------------------------------------------------------------------
\* The distribution phase on its own: from the constructed Partitioners to
\* the last recv()

\* The members of n Partitioners as their constructors leave them
Constructed(n) ==
  /\ m_node = [ p \in 0 .. (n - 1) |-> EmptyMap ]
  /\ m_id = [ p \in 0 .. (n - 1) |-> << >> ]
  /\ hostnodes = [ p \in 0 .. (n - 1) |-> {} ]
  /\ started = [ p \in 0 .. (n - 1) |-> FALSE ]
  /\ m_newid = [ p \in 0 .. (n - 1) |-> EmptyMap ]
  /\ m_reordered = [ p \in 0 .. (n - 1) |-> 0 ]
  /\ m_req = [ p \in 0 .. (n - 1) |-> << >> ]
  /\ m_chcid = [ p \in 0 .. (n - 1) |-> EmptyMap ]
  /\ m_lower = [ p \in 0 .. (n - 1) |-> 0 ]
  /\ m_upper = [ p \in 0 .. (n - 1) |-> 0 ]
  /\ m_cost = [ p \in 0 .. (n - 1) |-> << 0, 0 >> ]
  /\ sdag = [ p \in 0 .. (n - 1) |-> SdagInit ]
  /\ chan = [ c \in (0 .. (n - 1)) \X (0 .. (n - 1)) |-> << >> ]
  /\ hist = [ p \in 0 .. (n - 1) |-> HistInit ]
  /\ aborted = FALSE
  /\ nrun = 0
  /\ m_npe = [ p \in 0 .. (n - 1) |-> 0 ]
  /\ dist = [ p \in 0 .. (n - 1) |-> DistInit ]

\* State after construction and readGraph(), before the host's partition()
InitDist ==
  \E n \in 1 .. MaxPes : \E nc \in n .. MaxChare :
  \E part \in [ 0 .. (NumElems - 1) -> 0 .. (nc - 1) ] :
    /\ npes = n
    /\ m_nchare = nc
    /\ MeshRead(n, part)
    /\ Constructed(n)
    /\ pecall = NoCall

\* The host's partition( nchare ) arrives on PE p
Partition(p) ==
  /\ ~aborted
  /\ ~dist[p].done
  /\ Commit(p, partition(PeState(p), geomPartMesh[p], m_tetinpoel[p]), chan)
  /\ UNCHANGED started

\* An add() sent by PE q arrives on PE p
RecvAdd(q, p) ==
  /\ ~aborted
  /\ chan[<< q, p >>] # << >>
  /\ Head(chan[<< q, p >>]).type = "add"
  /\ LET msg == Head(chan[<< q, p >>])
         s0 == [PeState(p) EXCEPT
                  !.dist.addRecv = Logged(@, << q, msg.n >>),
                  !.dist.early = IF dist[p].done THEN @ ELSE @ + 1]
     IN  \E ord \in Orders(DOMAIN msg.n) :
           Commit(p, add(s0, msg.frompe, msg.n, ord),
                  [chan EXCEPT ![<< q, p >>] = Tail(@)])
  /\ UNCHANGED started

\* A recv() sent by PE q arrives on PE p
RecvRecv(q, p) ==
  /\ ~aborted
  /\ chan[<< q, p >>] # << >>
  /\ Head(chan[<< q, p >>]).type = "recv"
  /\ LET s0 == [PeState(p) EXCEPT !.dist.nrecv = @ + 1]
     IN  Commit(p, recv(s0), [chan EXCEPT ![<< q, p >>] = Tail(@)])
  /\ UNCHANGED started

\* The host's flatten() arrives on PE p: the host broadcasts it when the
\* distribution-complete reduction has the contribution of every PE
Flatten(p) ==
  /\ ~aborted
  /\ \A q \in PEs : dist[q].nsignal > 0
  /\ dist[p].nflatten = 0
  /\ Commit(p, flattenEntry(PeState(p)), chan)
  /\ UNCHANGED started

NextDist ==
  \/ \E p \in PEs : Partition(p)
  \/ \E q \in PEs, p \in PEs : RecvAdd(q, p)
  \/ \E q \in PEs, p \in PEs : RecvRecv(q, p)

SpecDist == InitDist /\ [][NextDist]_vars

\* The distribution phase followed by flatten()
NextFlat ==
  \/ NextDist
  \/ \E p \in PEs : Flatten(p)

SpecFlat == InitDist /\ [][NextFlat]_vars

----------------------------------------------------------------------------
\* The distribution phase, and add() on its own: besides the runs of
\* SpecDist, PE p, having nothing to distribute and nothing received, is
\* handed an add( q, nodes ) for any set of chares, its own or not

AddInFlight ==
  \E n \in 2 .. MaxPes : \E nc \in n .. MaxChare :
  \E q \in 0 .. (n - 1) : \E p \in (0 .. (n - 1)) \ {q} :
  \E S \in (SUBSET (0 .. (nc - 1))) \ {{}} :
    /\ npes = n
    /\ m_nchare = nc
    /\ m_tetinpoel = [ r \in 0 .. (n - 1) |-> << >> ]
    /\ geomPartMesh = [ r \in 0 .. (n - 1) |-> << >> ]
    /\ m_node = [ r \in 0 .. (n - 1) |-> EmptyMap ]
    /\ m_id = [ r \in 0 .. (n - 1) |-> << >> ]
    /\ hostnodes = [ r \in 0 .. (n - 1) |-> {} ]
    /\ started = [ r \in 0 .. (n - 1) |-> FALSE ]
    /\ m_newid = [ r \in 0 .. (n - 1) |-> EmptyMap ]
    /\ m_reordered = [ r \in 0 .. (n - 1) |-> 0 ]
    /\ m_req = [ r \in 0 .. (n - 1) |-> << >> ]
    /\ m_chcid = [ r \in 0 .. (n - 1) |-> EmptyMap ]
    /\ m_lower = [ r \in 0 .. (n - 1) |-> 0 ]
    /\ m_upper = [ r \in 0 .. (n - 1) |-> 0 ]
    /\ m_cost = [ r \in 0 .. (n - 1) |-> << 0, 0 >> ]
    /\ sdag = [ r \in 0 .. (n - 1) |-> SdagInit ]
    /\ hist = [ r \in 0 .. (n - 1) |-> HistInit ]
    /\ aborted = FALSE
    /\ nrun = 0
    /\ pecall = NoCall
    /\ dist = [ r \in 0 .. (n - 1) |-> [DistInit EXCEPT !.done = TRUE] ]
    /\ m_npe = [ r \in 0 .. (n - 1) |-> IF r = q THEN 1 ELSE 0 ]
    /\ chan = [ c \in (0 .. (n - 1)) \X (0 .. (n - 1)) |->
                 IF c = << q, p >>
                 THEN << [type |-> "add", frompe |-> q,
                          n |-> [ u \in S |-> Tet(u) ]] >>
                 ELSE << >> ]

InitAdd == InitDist \/ AddInFlight

SpecAdd == InitAdd /\ [][NextDist]_vars

\* Both phases, each from its own start: the entry methods of the
\* distribution from the constructed Partitioners (or with an add() in
\* flight), those of the reordering from the flattened ones
InitPhases == Init \/ InitAdd

NextPhases == Next \/ NextDist

SpecPhases == InitPhases /\ [][NextPhases]_vars

----------------------------------------------------------------------------
\* The owner function on its own: one call pe( id ) on a Partitioner whose
\* m_nchare and CkNumPes() are any pair, m_nchare < CkNumPes() included

InitMap ==
  \E n \in 1 .. MaxPes : \E nc \in 1 .. MaxUnits : \E id \in 0 .. (nc - 1) :
    /\ npes = n
    /\ m_nchare = nc
    /\ m_tetinpoel = [ p \in 0 .. (n - 1) |-> << >> ]
    /\ geomPartMesh = [ p \in 0 .. (n - 1) |-> << >> ]
    /\ Constructed(n)
    /\ pecall = [NoCall EXCEPT !.id = id]

\* pe( pecall.id ) is called
CallPe ==
  /\ ~pecall.called
  /\ \E o \in peOutcomes(pecall.id, m_nchare, npes) :
       pecall' = [pecall EXCEPT !.called = TRUE, !.err = o.err, !.p = o.p]
  /\ UNCHANGED << npes, m_nchare, hostnodes, started, m_node, m_id, m_newid,
                  m_reordered, m_req, m_chcid, m_lower, m_upper, m_cost, sdag,
                  chan, hist, aborted, m_npe, m_tetinpoel, geomPartMesh,
                  dist, nrun >>

NextMap == CallPe

SpecMap == InitMap /\ [][NextMap]_vars

\* Some entry method can run: the host's reorder() has not reached every PE
\* or a message is in flight.  This is ENABLED <<Next>>_vars, every message
\* type having its handler and every handler changing started or chan.
Runnable ==
  /\ ~aborted
  /\ \/ \E p \in PEs : ~started[p]
     \/ \E c \in DOMAIN chan : chan[c] # << >>

\* The scheduler runs one more entry method while there is work to do
\* (which one, and what it does, is Next's business)
Scheduled == Runnable /\ nrun' = nrun + 1

\* The Charm++ scheduler runs an entry method whenever a message (the
\* host's broadcast included) is waiting: the system never stops while a
\* message is deliverable
FairSpec == Spec /\ WF_nrun(Scheduled)

----------------------------------------------------------------------------
\* State predicates used by the properties

\* Nothing is left to do: every PE was started and no message is in flight
Quiescent ==
  /\ ~aborted
  /\ \A p \in PEs : started[p]
  /\ \A c \in DOMAIN chan : chan[c] = << >>

TypeOK ==
  /\ npes \in 1 .. MaxPes
  /\ m_nchare \in npes .. MaxChare
  /\ \A p \in PEs : m_reordered[p] \in Nat /\ Len(m_id[p]) > 0

\* PE p has run bounds() / has stored a lower bound
HasUpper(p) == hist[p].nbounds > 0

HasLower(p) == hist[p].nlower > 0

\* Old IDs of PE p that the communication map assigns to another PE
ForeignIds(p) == { i \in hostnodes[p] : Owner(i) # p }

\* All new IDs that are keys of the m_chcid maps of PE p
ChcidKeys(p) == UNION { DOMAIN m_chcid[p][c] : c \in DOMAIN m_chcid[p] }

----------------------------------------------------------------------------
\* Properties

\* C1: every old node ID of some m_id is given a new ID by the assignment
\* loop of reorder() on exactly one PE: never on two, and on one as soon as
\* all PEs have run reorder().
C1_UniqueAssignment ==
  \A i \in AllOldIds :
    LET assigners == { p \in PEs : i \in DOMAIN hist[p].asg }
    IN  /\ Cardinality(assigners) <= 1
        /\ (\A p \in PEs : started[p]) => Cardinality(assigners) = 1

\* C2: with the start offsets of the host, once all PEs have run reorder()
\* the new IDs assigned by their loops are exactly 0..TotalNodes-1 and no
\* value is produced twice.
C2_Contiguity ==
  (\A p \in PEs : started[p]) =>
    /\ UNION { Range(hist[p].asg) : p \in PEs } = 0 .. (TotalNodes - 1)
    /\ \A p, q \in PEs :
         \A i \in DOMAIN hist[p].asg, j \in DOMAIN hist[q].asg :
           (<< p, i >> # << q, j >>) => hist[p].asg[i] # hist[q].asg[j]

\* C3: when reordered() runs on PE p, m_newid[i] of every old ID i of p is
\* the new ID the owner of i assigned to i; so two PEs that reference the
\* same old ID substitute the same new ID for it.
C3_ConsistentRenumbering ==
  /\ \A p \in PEs : \A i \in DOMAIN hist[p].atReordered :
       (hist[p].nreordered > 0 /\ i \in DOMAIN hist[Owner(i)].asg) =>
         hist[p].atReordered[i] = hist[Owner(i)].asg[i]
  /\ \A p, q \in PEs :
       \A i \in (DOMAIN hist[p].atReordered) \cap (DOMAIN hist[q].atReordered) :
         hist[p].atReordered[i] = hist[q].atReordered[i]

\* C4: a PE sends, for each old ID it does not own, exactly one request()
\* containing it, to the owner, and none for the IDs it owns; it receives at
\* most one neworder() containing the ID, from the owner, and exactly one
\* when nothing is left to do; a PE never sends more replies to a peer than
\* it received requests from it, each reply carries the IDs of the request.
C4_RequestReplyPairing ==
  /\ \A p \in PEs : \A i \in hostnodes[p] :
       LET owner == Owner(i)
           Asks(e) == i \in e[2]
           Tells(e) == i \in DOMAIN e[2]
           FromOwner(e) == Tells(e) /\ e[1] = owner
           ToOwner(e) == Asks(e) /\ e[1] = owner
           asked == CountIn(hist[p].reqSent, Asks)
           told == CountIn(hist[p].repRecv, Tells)
       IN  /\ asked <= 1
           /\ asked = CountIn(hist[p].reqSent, ToOwner)
           /\ told <= asked
           /\ told = CountIn(hist[p].repRecv, FromOwner)
           /\ (owner = p) => asked = 0
           /\ (owner # p /\ started[p]) => asked = 1
           /\ (owner # p /\ Quiescent) => told = 1
  /\ \A q \in PEs : \A r \in PEs :
       LET From(e) == e[1] = r
           sent == CountIn(hist[q].repSent, From)
           received == CountIn(hist[q].reqRecv, From)
       IN  /\ sent <= received
           /\ Quiescent => sent = received
           /\ \A e \in DOMAIN hist[q].repSent :
                From(e) => << r, DOMAIN e[2] >> \in DOMAIN hist[q].reqRecv

\* C4 witness: nothing is left to do and some PE asked two owners and got
\* both replies.
C4_Witness ==
  /\ Quiescent
  /\ \E p \in PEs : LogSize(hist[p].reqSent) = 2 /\ LogSize(hist[p].repRecv) = 2

\* C5: once every PE has its lower and upper bound, lower of PE 0 is 0,
\* upper of PE p is lower of PE p+1, and upper of the last PE is TotalNodes.
C5_BoundsPartition ==
  (\A p \in PEs : HasLower(p) /\ HasUpper(p)) =>
    /\ m_lower[0] = 0
    /\ \A p \in PEs : p < npes - 1 => m_upper[p] = m_lower[p + 1]
    /\ m_upper[npes - 1] = TotalNodes

\* C6 as stated: after bounds() on any PE, m_upper is one past the largest
\* new ID among the keys of its m_chcid maps.
C6_UpperOnePastMax ==
  \A p \in PEs : HasUpper(p) => m_upper[p] = MaxOf(ChcidKeys(p)) + 1

\* C6 amended: after bounds() on a PE, m_upper is the largest new ID among
\* the keys of its m_chcid maps, and one past it on the last PE only.
C6_UpperIsMaxLastPlusOne ==
  \A p \in PEs : HasUpper(p) =>
    m_upper[p] = MaxOf(ChcidKeys(p)) + (IF p = npes - 1 THEN 1 ELSE 0)

\* C6 witness: a PE that is not the last one has run bounds().
C6_Witness ==
  \E p \in PEs : p < npes - 1 /\ HasUpper(p) /\ m_upper[p] > 0

\* C7: every new ID v a PE assigned in reorder() satisfies
\* lower <= v < upper once the PE has both bounds.
C7_AssignedInRange ==
  \A p \in PEs : (HasLower(p) /\ HasUpper(p)) =>
    \A v \in Range(hist[p].asg) : m_lower[p] <= v /\ v < m_upper[p]

\* C7 failing case: a PE holds both bounds and assigned a new ID below its
\* lower bound.
C7_BelowLower ==
  \E p \in PEs :
    /\ HasLower(p) /\ HasUpper(p)
    /\ \E v \in Range(hist[p].asg) : v < m_lower[p]

\* C8: bounds() runs on a PE only after the PE has received the neworder()
\* replies for all IDs of its communication map.
C8_NoEarlyUpper ==
  \A p \in PEs : HasUpper(p) =>
    \A i \in ForeignIds(p) :
      \E e \in DOMAIN hist[p].repAtBounds : i \in DOMAIN e[2]

\* C9: PE 0 sets m_lower to 0 and receives no lower(); every other PE
\* receives at most one lower(), exactly one when nothing is left to do,
\* sent by its predecessor and carrying the predecessor's m_upper, which is
\* set once; the last PE sends no lower().
C9_LowerChain ==
  /\ hist[0].lowRecv = EmptyMap
  /\ HasLower(0) => m_lower[0] = 0
  /\ HasUpper(0) => HasLower(0)
  /\ hist[npes - 1].lowSent = EmptyMap
  /\ \A p \in PEs :
       /\ hist[p].nbounds <= 1
       /\ LogSize(hist[p].lowRecv) <= 1
       /\ (p > 0 /\ Quiescent) => LogSize(hist[p].lowRecv) = 1
       /\ \A e \in DOMAIN hist[p].lowRecv :
            /\ e[1] = p - 1
            /\ HasUpper(p - 1)
            /\ e[2] = m_upper[p - 1]
            /\ m_lower[p] = m_upper[p - 1]

\* C9 witness: three PEs, nothing is left to do, the middle and the last PE
\* hold the lower bound they were sent.
C9_Witness ==
  /\ npes = 3
  /\ Quiescent
  /\ LogSize(hist[1].lowRecv) = 1 /\ LogSize(hist[2].lowRecv) = 1

\* C10: after reordered() on a PE, looking up the new ID stored at
\* m_node[c][k] in m_chcid[c] gives the old ID that m_node[c][k] held
\* before reordered() ran.
C10_RoundTrip ==
  \A p \in PEs : hist[p].nreordered > 0 =>
    \A c \in DOMAIN m_node[p] : \A k \in DOMAIN m_node[p][c] :
      /\ c \in DOMAIN m_chcid[p]
      /\ m_node[p][c][k] \in DOMAIN m_chcid[p][c]
      /\ m_chcid[p][c][m_node[p][c][k]] = hist[p].old[c][k]

\* C10 witness: a PE whose chare holds two tetrahedra (an old ID occurs
\* twice in its list) has run reordered().
C10_Witness ==
  \E p \in PEs : \E c \in DOMAIN m_node[p] :
    /\ hist[p].nreordered > 0
    /\ Len(m_node[p][c]) = 2 * NodesPerElem
    /\ \E k \in DOMAIN m_node[p][c] : m_node[p][c][k] # hist[p].old[c][k]

\* C11: under fair delivery of every message and of the host's reorder(),
\* every PE eventually runs reordered().
C11_ReorderingTerminates == <>(\A p \in PEs : hist[p].nreordered > 0)

\* C11 witness: every PE has run reordered() and some PE had asked an owner
\* for new IDs and has received the reply.
C11_Witness ==
  /\ \A p \in PEs : hist[p].nreordered > 0
  /\ \E p \in PEs : LogSize(hist[p].reqSent) > 0 /\ LogSize(hist[p].repRecv) > 0

----------------------------------------------------------------------------
\* Distribution: what every chare is due

\* Node IDs PE q's elements k, k+1, ... contribute to chare u
RECURSIVE Contribution(_, _, _)
Contribution(q, u, k) ==
  IF k > Len(geomPartMesh[q]) THEN << >>
  ELSE (IF geomPartMesh[q][k] = u THEN Tet(gelemid(q, npes)[k]) ELSE << >>)
       \o Contribution(q, u, k + 1)

\* Node IDs of all elements of the mesh assigned to chare u
AllContributions(u) == Concat([ q \in PEs |-> Contribution(q, u, 1) ], PEs)

\* A vector as a multiset: value -> number of occurrences
BagOf(v) == [ i \in Range(v) |-> Cardinality({ k \in DOMAIN v : v[k] = i }) ]

\* Every PE has run distribute() and no add() for PE p is in flight
AllAddsReceived(p) ==
  \A q \in PEs :
    /\ dist[q].done
    /\ \A k \in DOMAIN chan[<< q, p >>] : chan[<< q, p >>][k].type # "add"

\* m_node of PE p holds, for each chare p owns, exactly what the chare is due
HoldsAllContributions(p) ==
  \A u \in OwnedChares(p, npes, m_nchare) :
    BagOf(At(m_node[p], u)) = BagOf(AllContributions(u))

\* C12: once a PE has run its distribute() and received every add() sent to
\* it, m_node[u] of each chare u it owns holds the node IDs of every element
\* assigned to u on any PE, whether the add() messages came before or after
\* its own distribute().
C12_DistributionLosesNothing ==
  \A p \in PEs : AllAddsReceived(p) => HoldsAllContributions(p)

\* C12 failing case: a PE that received no add() before its own distribute()
\* holds everything, a PE that received one before it has lost nodes.
C12_LostAfterEarlyAdd ==
  \E p \in PEs :
    AllAddsReceived(p) /\ dist[p].early > 0 /\ ~HoldsAllContributions(p)

\* Every PE has signalled distribution-complete to the host
AllSignalled == \A p \in PEs : dist[p].nsignal > 0

\* No add() and no recv() is in flight
NoneInFlight == \A c \in DOMAIN chan : chan[c] = << >>

\* C13: in every state in which all PEs have signalled distribution-complete
\* no add() and no recv() is in flight and m_node of every PE holds all
\* contributions to the chares it owns.
C13_CompletionIsGlobal ==
  AllSignalled => (NoneInFlight /\ \A p \in PEs : HoldsAllContributions(p))

\* C13 failing case: all PEs have signalled, nothing is in flight and some
\* PE has lost the nodes of its own elements.
C13_SignalledButIncomplete ==
  AllSignalled /\ NoneInFlight /\ \E p \in PEs : ~HoldsAllContributions(p)

\* C14 as stated, looked at where the divisor of pe() is not zero
\* (m_nchare >= CkNumPes()): pe(id) is id divided by ceil(m_nchare /
\* CkNumPes()), an id beyond the start of the last PE going to the last PE.
C14_OwnerByCeiling ==
  (pecall.called /\ m_nchare >= npes) =>
    /\ ~pecall.err
    /\ pecall.p = (IF pecall.id \div Ceil(m_nchare, npes) >= npes THEN npes - 1
                   ELSE pecall.id \div Ceil(m_nchare, npes))

\* C14 amended: with m_nchare >= CkNumPes() and k = floor(m_nchare /
\* CkNumPes()), pe(id) is a valid rank q with q*k <= id, and id < (q+1)*k
\* unless q is the last PE, which takes every id from (CkNumPes()-1)*k on.
C14_OwnerByFloor ==
  (pecall.called /\ m_nchare >= npes) =>
    LET k == m_nchare \div npes
        q == pecall.p
    IN  /\ ~pecall.err
        /\ q \in 0 .. (npes - 1)
        /\ q * k <= pecall.id
        /\ (q < npes - 1) => pecall.id < (q + 1) * k

\* C14 witness: pe() was called with an id in the remainder that the last
\* PE takes on top of its chunk, where floor and ceiling differ.
C14_Witness ==
  /\ pecall.called
  /\ m_nchare >= npes /\ m_nchare % npes # 0
  /\ pecall.id >= npes * (m_nchare \div npes)
  /\ pecall.p = npes - 1

\* C15: with m_nchare >= CkNumPes(), pe(id) = p exactly for the PE p whose
\* chareDistribution() range holds id; so distribute() never sends an add()
\* to its own PE, exports no chare it owns, and keeps an entry in m_node for
\* each owned chare it has elements of.
C15_RoutingAgreesWithOwnership ==
  /\ \A id \in 0 .. (m_nchare - 1) : \A p \in PEs :
       (pe(id, m_nchare, npes) = p) <=> (id \in OwnedChares(p, npes, m_nchare))
  /\ \A p \in PEs :
       /\ \A e \in DOMAIN dist[p].addSent :
            /\ e[1] # p
            /\ (DOMAIN e[2]) \cap OwnedChares(p, npes, m_nchare) = {}
       /\ dist[p].done =>
            \A u \in (DOMAIN dist[p].grouped) \cap OwnedChares(p, npes, m_nchare) :
              u \in DOMAIN m_node[p]

\* C15 witness: the number of chares is not a multiple of the number of
\* PEs, and a PE has run distribute(), kept a chare and exported another.
C15_Witness ==
  /\ m_nchare % npes # 0
  /\ \E p \in PEs :
       /\ dist[p].done
       /\ LogSize(dist[p].addSent) > 0
       /\ (DOMAIN dist[p].grouped) \cap OwnedChares(p, npes, m_nchare) # {}

\* C16: for any number of chares, smaller than the number of PEs or not,
\* pe(id) of every id in [0, m_nchare) ends without an error in a valid PE
\* rank.
C16_UsableForAnyUnitCount ==
  pecall.called => (~pecall.err /\ pecall.p \in 0 .. (npes - 1))

\* C16 failing case: fewer chares than PEs and the call has failed.
C16_ZeroChunk ==
  pecall.called /\ m_nchare < npes /\ pecall.err

\* C17: whenever cost() has been evaluated on a PE, the number of entries of
\* m_id outside [lower, upper) is between 0 and the number of entries of
\* m_id, and that number is not zero: the quotient exists and is in [0,1].
C17_CostRange ==
  \A p \in PEs : hist[p].ncreate > 0 =>
    /\ m_cost[p][2] = Len(m_id[p])
    /\ m_cost[p][2] > 0
    /\ 0 <= m_cost[p][1] /\ m_cost[p][1] <= m_cost[p][2]

\* C17 witness: a PE has evaluated a cost strictly between 0 and 1.
C17_Witness ==
  \E p \in PEs :
    hist[p].ncreate > 0 /\ 0 < m_cost[p][1] /\ m_cost[p][1] < m_cost[p][2]

\* C18: a PE whose cost computed in create() is 0 has assigned the new ID
\* of every node of its m_id itself and references no node that another PE
\* owns.
C18_ZeroCostFullOwnership ==
  \A p \in PEs : (hist[p].ncreate > 0 /\ m_cost[p][1] = 0) =>
    /\ hostnodes[p] \subseteq DOMAIN hist[p].asg
    /\ ForeignIds(p) = {}

\* C18 failing case: a PE with cost 0 references nodes owned by another PE.
C18_ZeroCostWithForeign ==
  \E p \in PEs :
    hist[p].ncreate > 0 /\ m_cost[p][1] = 0 /\ ForeignIds(p) # {}

\* C19: on a single PE, once reorder() has run, every ID of m_id was
\* assigned locally, no request was sent, reordered(), bounds() and create()
\* have run, lower is 0, upper the number of nodes and the cost 0.
C19_SingleProcess ==
  (npes = 1 /\ started[0]) =>
    /\ hostN(0) = 0 /\ hostComm(0) = EmptyMap
    /\ DOMAIN hist[0].asg = Range(hist[0].oldid)
    /\ Range(hist[0].asg) = 0 .. (TotalNodes - 1)
    /\ hist[0].reqSent = EmptyMap
    /\ nrun = 1 /\ hist[0].nreordered = 1
    /\ HasLower(0) /\ m_lower[0] = 0
    /\ HasUpper(0) /\ m_upper[0] = TotalNodes
    /\ hist[0].ncreate = 1 /\ m_cost[0] = << 0, TotalNodes >>

\* C19 witness: the single PE of a run has handled reorder().
C19_Witness == npes = 1 /\ started[0] /\ hist[0].nreordered = 1

\* Sum of the lengths of the vectors g[c], c in S
RECURSIVE SumLen(_, _)
SumLen(g, S) ==
  IF S = {} THEN 0
  ELSE LET c == CHOOSE x \in S : TRUE IN Len(g[c]) + SumLen(g, S \ {c})

\* C20: the map returned by chareNodes(che) has one list per chare that
\* occurs in che; the list of chare c is the concatenation, in element
\* order, of the 4 node IDs of the local elements e with che[e] = c and of
\* nothing else; the lengths of the lists sum to 4 times the element count.
C20_NodeGrouping ==
  \A p \in PEs : dist[p].done =>
    LET g == dist[p].grouped
    IN  /\ DOMAIN g = Range(geomPartMesh[p])
        /\ \A c \in DOMAIN g : g[c] = Contribution(p, c, 1)
        /\ SumLen(g, DOMAIN g) = NodesPerElem * Len(geomPartMesh[p])

\* C20 witness: chareNodes() has grouped a chunk of two elements or more
\* into two lists or more, one of them holding two elements.
C20_Witness ==
  \E p \in PEs :
    /\ dist[p].done
    /\ Cardinality(DOMAIN dist[p].grouped) >= 2
    /\ \E c \in DOMAIN dist[p].grouped :
         Len(dist[p].grouped[c]) = 2 * NodesPerElem

\* Some chare in [0, m_nchare) is assigned no element of the mesh
EmptyChare == \E u \in 0 .. (m_nchare - 1) : AllContributions(u) = << >>

\* C21: if the partition leaves a chare without elements, chareNodes() fails
\* with the overdecomposition error: no PE gets past it to distribute().
C21_OverdecompositionReported ==
  EmptyChare => \A p \in PEs : ~dist[p].done /\ dist[p].addSent = EmptyMap

\* C21 failing case: a chare has no element, yet every PE has run
\* distribute() and signalled distribution-complete without any error.
C21_EmptyChareUnnoticed ==
  EmptyChare /\ ~aborted /\ AllSignalled /\ NoneInFlight

\* The add() message e = << sender, nodes >> that PE p received carries a
\* chare that p does not own
Misrouted(p, e) == \E u \in DOMAIN e[2] : pe(u, m_nchare, npes) # p

\* Every add() that distribute() sent carries only chares of its addressee
\* and no add() of a run of the protocol has failed
NoMisroutedSent ==
  /\ \A p \in PEs : \A e \in DOMAIN dist[p].addSent :
       \A u \in DOMAIN e[2] : pe(u, m_nchare, npes) = e[1]
  /\ (\A p \in PEs : \A e \in DOMAIN dist[p].addRecv : ~Misrouted(p, e))
       => ~aborted

ListedInComm(p) == UNION { hostComm(p)[q] : q \in DOMAIN hostComm(p) }

\* C23: the assignment loop of reorder( n, comm ) gives a new ID to an ID
\* of m_id if and only if the ID is in none of the ID sets of comm; the IDs
\* listed in comm are skipped.
C23_OwnershipPredicate ==
  \A p \in PEs :
    /\ (DOMAIN hist[p].asg) \cap ListedInComm(p) = {}
    /\ started[p] => DOMAIN hist[p].asg = hostnodes[p] \ ListedInComm(p)

\* C23 failing case: a PE has assigned a new ID to an ID it has also
\* requested from a peer.
C23_ListedYetAssigned ==
  \E p \in PEs : \E e \in DOMAIN hist[p].reqSent :
    e[2] \cap (DOMAIN hist[p].asg) # {}

\* C27: a PE that owns k of its IDs (those its communication map does not
\* list) and is started with offset n assigns exactly n, n+1, ..., n+k-1,
\* one per owned ID and in ascending order of the old IDs.
C27_SequentialNumbering ==
  \A p \in PEs : started[p] =>
    LET asg == hist[p].asg
        k == Cardinality(hostnodes[p] \ ListedInComm(p))
    IN  /\ Cardinality(DOMAIN asg) = k
        /\ Range(asg) = hostN(p) .. (hostN(p) + k - 1)
        /\ \A i \in DOMAIN asg, j \in DOMAIN asg : i < j => asg[i] < asg[j]

\* C27 failing case: a PE has handed out more new IDs than it owns IDs, so
\* its numbers run into the range of the next PE.
C27_MoreThanOwned ==
  \E p \in PEs :
    /\ started[p]
    /\ \E v \in Range(hist[p].asg) :
         v >= hostN(p) + Cardinality(hostnodes[p] \ ListedInComm(p))

\* Replies of PE p that are still in the network
RepliesInFlight(p) ==
  { q \in PEs : \E k \in DOMAIN chan[<< p, q >>] :
                  chan[<< p, q >>][k].type = "neworder" }

\* C24: a PE whose reorder() has not run yet has sent no neworder(), has run
\* no prepare() and holds every request it received in m_req; the reorder()
\* call leaves m_req empty, and if k > 0 requests were queued, its first
\* prepare() answered all k of them (one reply per queued request) and the
\* k - 1 further runs found the queue empty.
C24_RepliesWaitForAssignment ==
  /\ [](\A p \in PEs : ~started[p] =>
          /\ hist[p].repSent = EmptyMap
          /\ hist[p].nprepare = 0
          /\ RepliesInFlight(p) = {}
          /\ Len(m_req[p]) = LogSize(hist[p].reqRecv))
  /\ [][\A p \in PEs : (~started[p] /\ started'[p] /\ ~aborted') =>
          LET k == Len(m_req[p])
              Full(e) == e[1] > 0
          IN  /\ m_req'[p] = << >>
              /\ hist'[p].nprepare = k
              /\ LogSize(hist'[p].repSent) = k
              /\ \A i \in 1 .. k :
                    \E e \in DOMAIN hist'[p].repSent :
                      e[1] = m_req[p][i][1] /\ DOMAIN e[2] = m_req[p][i][2]
              /\ k > 0 =>
                    /\ << k, k, TRUE >> \in DOMAIN hist'[p].prep
                    /\ CountIn(hist'[p].prep, Full) = 1]_vars

\* C24 witness: a PE was started with two requests in its queue and its
\* first prepare() answered both.
C24_Witness ==
  \E p \in PEs :
    /\ started[p]
    /\ m_req[p] = << >>
    /\ << 2, 2, TRUE >> \in DOMAIN hist[p].prep
    /\ LogSize(hist[p].repSent) >= 2

\* Number of IDs in the neworder() messages of a log
RECURSIVE IdsIn(_, _)
IdsIn(b, S) ==
  IF S = {} THEN 0
  ELSE LET e == CHOOSE x \in S : TRUE
       IN  b[e] * Cardinality(DOMAIN e[2]) + IdsIn(b, S \ {e})

\* IDs PE p has assigned locally plus IDs it has received in neworder()
AssignedAndReceived(p) ==
  Cardinality(DOMAIN hist[p].asg) + IdsIn(hist[p].repRecv, DOMAIN hist[p].repRecv)

\* C25: m_reordered is the number of locally assigned IDs plus the number
\* of IDs received in neworder(); when reordered() was entered that sum was
\* |m_id| and m_newid had an entry for every ID of m_id; reorder() and every
\* neworder() enter reordered() if the sum they leave equals |m_id|, and do
\* not enter it otherwise.
C25_CompletionCondition ==
  /\ [](\A p \in PEs :
          /\ m_reordered[p] = AssignedAndReceived(p)
          /\ hist[p].nreordered > 0 =>
                /\ Cardinality(DOMAIN hist[p].asg)
                     + IdsIn(hist[p].repAtBounds, DOMAIN hist[p].repAtBounds)
                     = Len(hist[p].oldid)
                /\ Range(hist[p].oldid) \subseteq DOMAIN hist[p].atReordered)
  /\ [][\A p \in PEs :
          (m_reordered'[p] # m_reordered[p] /\ ~aborted') =>
            hist'[p].nreordered =
              hist[p].nreordered
                + (IF AssignedAndReceived(p)' = Len(m_id[p]) THEN 1 ELSE 0)]_vars

\* C25 witness: a PE entered reordered() when the sum was |m_id|, and a
\* neworder() that left another sum did not enter it.
C25_Witness ==
  \E p \in PEs :
    /\ hist[p].nreordered = 1
    /\ LogSize(hist[p].repRecv) > 0
    /\ AssignedAndReceived(p) # Len(m_id[p])
    /\ Range(hist[p].oldid) \subseteq DOMAIN hist[p].atReordered

\* C26: no lookup of prepare() misses (no PE has failed); every request
\* goes to the PE that assigns the requested IDs, so every ID in a queue
\* m_req[p] is an ID of p, assigned by p once its assignment loop has run,
\* and every reply was built from entries p had in m_newid.
C26_ServedIdsKnown ==
  /\ ~aborted
  /\ \A p \in PEs :
       /\ \A e \in DOMAIN hist[p].reqSent : \A i \in e[2] :
            /\ Owner(i) = e[1]
            /\ i \in hostnodes[e[1]]
            /\ started[e[1]] => i \in DOMAIN m_newid[e[1]]
       /\ \A k \in DOMAIN m_req[p] :
            /\ m_req[p][k][2] \subseteq hostnodes[p]
            /\ started[p] => m_req[p][k][2] \subseteq DOMAIN m_newid[p]
       /\ \A e \in DOMAIN hist[p].repCtx :
            /\ DOMAIN e[3] = e[1][2]
            /\ e[1][2] \subseteq DOMAIN hist[p].asg

\* C26 witness: a prepare() has served two queued requests at once and found
\* every requested ID in m_newid.
C26_Witness ==
  /\ ~aborted
  /\ \E p \in PEs :
       /\ << 2, 2, TRUE >> \in DOMAIN hist[p].prep
       /\ \E e \in DOMAIN hist[p].repCtx :
            e[1][2] # {} /\ e[1][2] \subseteq DOMAIN m_newid[p]

\* Number of requests the prepare() runs of a log found queued
RECURSIVE QueuedIn(_, _)
QueuedIn(b, S) ==
  IF S = {} THEN 0
  ELSE LET e == CHOOSE x \in S : TRUE IN b[e] * e[1] + QueuedIn(b, S \ {e})

\* C29: every prepare() run sent as many neworder() as requests were queued
\* when it started (none on an empty queue) and changed neither m_newid nor
\* m_reordered; every received request is queued or was answered exactly
\* once, whatever the number of prepare() runs; once reorder() has run there
\* was one prepare() run per request signal and the queue is empty.
C29_DrainingIdempotent ==
  \A p \in PEs :
    /\ \A e \in DOMAIN hist[p].prep : e[2] = e[1] /\ e[3]
    /\ LogSize(hist[p].prep) = hist[p].nprepare
    /\ QueuedIn(hist[p].prep, DOMAIN hist[p].prep) = LogSize(hist[p].repSent)
    /\ LogSize(hist[p].repSent) + Len(m_req[p]) = LogSize(hist[p].reqRecv)
    /\ \A q \in PEs :
         LET From(e) == e[1] = q
             Queued == { k \in DOMAIN m_req[p] : m_req[p][k][1] = q }
         IN  CountIn(hist[p].repSent, From) + Cardinality(Queued)
               = CountIn(hist[p].reqRecv, From)
    /\ started[p] =>
         /\ hist[p].nprepare = LogSize(hist[p].reqRecv)
         /\ m_req[p] = << >>
         /\ sdag[p].t_req = 0

\* C29 witness: two requests were queued before one prepare(), which
\* answered both, and the prepare() run of the second request signal found
\* the queue empty.
C29_Witness ==
  \E p \in PEs :
    /\ << 2, 2, TRUE >> \in DOMAIN hist[p].prep
    /\ << 0, 0, TRUE >> \in DOMAIN hist[p].prep
    /\ hist[p].nprepare = 2
    /\ LogSize(hist[p].repSent) = 2

\* neworder() messages from PE p to PE q with content id: still in the
\* network, and already received
FlightCount(p, q, id) ==
  Cardinality({ k \in DOMAIN chan[<< p, q >>] :
                  /\ chan[<< p, q >>][k].type = "neworder"
                  /\ chan[<< p, q >>][k].id = id })

ReceivedCount(p, q, id) ==
  IF << p, id >> \in DOMAIN hist[q].repRecv
  THEN hist[q].repRecv[<< p, id >>] ELSE 0

\* C30: the neworder() built by prepare() on PE p for a queued request
\* (pe, ids) has exactly the keys ids, each with the value m_newid[p] had
\* for it when prepare() ran (the new ID p assigned to it), and it travels
\* to pe: the replies that PE q
\* has received from p or that are on their way from p to q are those built
\* for requests of q.
C30_ReplyContent ==
  \A p \in PEs :
    /\ \A e \in DOMAIN hist[p].repCtx :
         /\ DOMAIN e[2] = e[1][2]
         /\ \A k \in e[1][2] : e[2][k] = e[3][k] /\ e[3][k] = hist[p].asg[k]
    /\ \A q \in PEs :
         /\ \A k \in DOMAIN chan[<< p, q >>] :
              chan[<< p, q >>][k].type = "neworder" =>
                \E e \in DOMAIN hist[p].repCtx :
                  e[1][1] = q /\ e[2] = chan[<< p, q >>][k].id
         /\ \A e \in DOMAIN hist[q].repRecv :
              e[1] = p => \E c \in DOMAIN hist[p].repCtx :
                            c[1][1] = q /\ c[2] = e[2]
         /\ \A e \in DOMAIN hist[p].repCtx :
              e[1][1] = q =>
                FlightCount(p, q, e[2]) + ReceivedCount(p, q, e[2])
                  = LET Same(c) == c[1][1] = q /\ c[2] = e[2]
                    IN  CountIn(hist[p].repCtx, Same)

\* C30 witness: a reply for two requested IDs, one of them renumbered, has
\* reached the requesting PE.
C30_Witness ==
  \E p \in PEs : \E e \in DOMAIN hist[p].repCtx :
    /\ Cardinality(e[1][2]) >= 2
    /\ \E k \in e[1][2] : e[2][k] # k
    /\ e[1][1] # p
    /\ ReceivedCount(p, e[1][1], e[2]) = 1

\* PEs other than p that own a chare PE p has grouped nodes for
ForeignDestinations(p) ==
  { pe(c, m_nchare, npes) : c \in DOMAIN dist[p].grouped } \ {p}

\* C28: before distribute() a PE has sent no add() and m_npe is 0; after it
\* the PE has sent one add() to each foreign PE owning a chare it grouped
\* nodes for and none to any other PE, and m_npe is the number of add()
\* sent minus the number of recv() received, which is never negative;
\* distribute() itself leaves m_npe at the number of destinations.
C28_AcknowledgementCounter ==
  /\ [](\A p \in PEs :
          /\ ~dist[p].done =>
               m_npe[p] = 0 /\ dist[p].addSent = EmptyMap /\ dist[p].nrecv = 0
          /\ dist[p].done =>
               /\ { e[1] : e \in DOMAIN dist[p].addSent } = ForeignDestinations(p)
               /\ LogSize(dist[p].addSent) = Cardinality(ForeignDestinations(p))
               /\ m_npe[p] = LogSize(dist[p].addSent) - dist[p].nrecv
               /\ m_npe[p] >= 0)
  /\ [][\A p \in PEs : (~dist[p].done /\ dist'[p].done) =>
          /\ m_npe'[p] = Cardinality(ForeignDestinations(p)')
          /\ \A q \in ForeignDestinations(p)' :
               Len(chan'[<< p, q >>]) = Len(chan[<< p, q >>]) + 1]_vars

\* C28 witness: two PEs each sent one add(); one has received its
\* acknowledgement and counts 0, the other has not and counts 1.
C28_Witness ==
  \E p \in PEs, q \in PEs :
    /\ dist[p].done /\ dist[q].done
    /\ LogSize(dist[p].addSent) = 1 /\ dist[p].nrecv = 1 /\ m_npe[p] = 0
    /\ LogSize(dist[q].addSent) = 1 /\ dist[q].nrecv = 0 /\ m_npe[q] = 1

\* C36: no PE runs reordered() or bounds() more than once; a PE that has
\* run reordered() keeps the m_node and m_id it wrote there.
C36_ReorderedAtMostOnce ==
  /\ [](\A p \in PEs : hist[p].nreordered <= 1 /\ hist[p].nbounds <= 1)
  /\ [][\A p \in PEs : hist[p].nreordered = 1 =>
          /\ hist'[p].nreordered = 1
          /\ hist'[p].nbounds = hist[p].nbounds
          /\ m_node'[p] = m_node[p]
          /\ m_id'[p] = m_id[p]]_vars

\* C36 witness: a PE that has run reordered() has handled a neworder()
\* afterwards and has still run reordered() and bounds() once.
C36_Witness ==
  \E p \in PEs :
    /\ hist[p].nreordered = 1
    /\ hist[p].nbounds = 1
    /\ LogSize(hist[p].repRecv) > LogSize(hist[p].repAtBounds)

\* C37: on every PE m_reordered is at most |m_id| and is the number of old
\* IDs that have an entry in m_newid.
C37_CounterBound ==
  \A p \in PEs :
    /\ m_reordered[p] <= Len(m_id[p])
    /\ m_reordered[p] = Cardinality(DOMAIN m_newid[p])

\* C37 failing case: a PE counts more reordered IDs than it has IDs.
C37_CountedTwice ==
  \E p \in PEs : m_reordered[p] > Len(m_id[p])

\* C38: an entry of m_newid is never replaced by a different value, and no
\* PE handles a neworder() after it has run reordered().
C38_NewIdsWriteOnce ==
  /\ [][\A p \in PEs : \A k \in DOMAIN m_newid[p] :
          k \in DOMAIN m_newid'[p] /\ m_newid'[p][k] = m_newid[p][k]]_vars
  /\ [](\A p \in PEs : hist[p].nreordered > 0 =>
          hist[p].repRecv = hist[p].repAtBounds)

\* C38 failing case: a PE that has run reordered() has received a
\* neworder() that replaced a new ID the PE had assigned itself.
C38_ReplacedAfterReordered ==
  \E p \in PEs :
    /\ hist[p].nreordered > 0
    /\ LogSize(hist[p].repRecv) > 0
    /\ \E k \in DOMAIN hist[p].asg : m_newid[p][k] # hist[p].asg[k]

C34_CostNumerator ==
  \A p \in PEs : hist[p].ncreate > 0 =>
    m_cost[p][1] = Cardinality(ForeignIds(p))

\* C34 failing case: one PE counts fewer communicated IDs than it has IDs
\* owned by other PEs, and a PE that owns all of its IDs counts one.
C34_Miscounted ==
  /\ \E p \in PEs :
       hist[p].ncreate > 0 /\ m_cost[p][1] < Cardinality(ForeignIds(p))
  /\ \E p \in PEs :
       hist[p].ncreate > 0 /\ ForeignIds(p) = {} /\ m_cost[p][1] = 1

\* Every PE holds its upper bound and its lower bound: 0 on PE 0, the
\* predecessor's upper bound on every other PE
AllBounds ==
  \A p \in PEs :
    /\ HasUpper(p) /\ HasLower(p)
    /\ m_lower[p] = (IF p = 0 THEN 0 ELSE m_upper[p - 1])

\* C32: under fair delivery of every message and of the host's reorder(),
\* eventually every PE holds both of its bounds, and keeps them.
C32_BoundsBecomeAvailable == <>[]AllBounds

\* C32 witness: three PEs hold both bounds, the lower bounds of PE 1 and
\* PE 2 having come down the chain.
C32_Witness ==
  /\ npes = 3
  /\ AllBounds
  /\ hist[1].lowRecv # EmptyMap /\ hist[2].lowRecv # EmptyMap
  /\ 0 < m_lower[1] /\ m_lower[1] < m_lower[2]

\* Node IDs in the lists of a map chare -> node list
NodesOf(node) == UNION { Range(node[c]) : c \in DOMAIN node }

\* C31: a flatten() that passes its check leaves in m_id exactly the node
\* IDs that occur in the lists of m_node, each of them once.
C31_UniqueLocalIdSet ==
  [][\A p \in PEs :
       (dist'[p].nflatten > dist[p].nflatten /\ ~aborted') =>
         /\ Range(m_id'[p]) = NodesOf(m_node[p])
         /\ Len(m_id'[p]) = Cardinality(NodesOf(m_node[p]))
         /\ m_node'[p] = m_node[p]]_vars

\* C31 witness: flatten() has run on a PE whose lists repeat a node ID
\* within one chare and across two chares, and m_id has it once.
C31_Witness ==
  \E p \in PEs :
    /\ dist[p].nflatten > 0 /\ ~aborted
    /\ Cardinality(DOMAIN m_node[p]) >= 2
    /\ \E c \in DOMAIN m_node[p] :
         Len(m_node[p][c]) > Cardinality(Range(m_node[p][c]))
    /\ \E c \in DOMAIN m_node[p], d \in DOMAIN m_node[p] :
         c # d /\ Range(m_node[p][c]) \cap Range(m_node[p][d]) # {}
    /\ Len(m_id[p]) = Cardinality(NodesOf(m_node[p]))

\* C40: if no chare is left without an element, every flatten() finds in
\* m_node exactly the chares its PE owns, and its check passes.
C40_OwnedUnitsAtFlatten ==
  [][\A p \in PEs :
       (dist'[p].nflatten > dist[p].nflatten /\ ~EmptyChare) =>
         /\ DOMAIN m_node[p] = OwnedChares(p, npes, m_nchare)
         /\ ~aborted']_vars

\* C40 witness: flatten() has passed its check on a PE that owns two
\* chares, one of which it got the nodes of in an add() only.
C40_Witness ==
  /\ ~EmptyChare /\ ~aborted
  /\ \E p \in PEs :
       /\ dist[p].nflatten > 0
       /\ Cardinality(OwnedChares(p, npes, m_nchare)) = 2
       /\ DOMAIN m_node[p] = OwnedChares(p, npes, m_nchare)
       /\ \E c \in DOMAIN m_node[p] : Contribution(p, c, 1) = << >>

\* C39: a PE has signalled distribution-complete at most once, and once as
\* soon as it has run distribute() and m_npe is 0, never while m_npe is
\* not 0; distribute() signals if and only if it has no foreign
\* destination, recv() if and only if it brings m_npe to 0, add() never.
C39_SignalledExactlyOnce ==
  /\ [](\A p \in PEs :
          /\ dist[p].nsignal <= 1
          /\ dist[p].nsignal = (IF dist[p].done /\ m_npe[p] = 0 THEN 1 ELSE 0)
          /\ (\A q \in PEs : dist[q].done) /\ NoneInFlight => dist[p].nsignal = 1)
  /\ [][\A p \in PEs :
          LET signals == dist'[p].nsignal - dist[p].nsignal
          IN  /\ (~dist[p].done /\ dist'[p].done) =>
                   signals = (IF ForeignDestinations(p)' = {} THEN 1 ELSE 0)
              /\ dist'[p].nrecv > dist[p].nrecv =>
                   signals = (IF m_npe'[p] = 0 THEN 1 ELSE 0)
              /\ dist'[p].addRecv # dist[p].addRecv /\ dist[p].done =>
                   signals = 0]_vars

\* C39 witness: distribution is over; one PE signalled in distribute(),
\* having no foreign destination, another in the recv() of its add().
C39_Witness ==
  /\ NoneInFlight
  /\ \A p \in PEs : dist[p].done /\ dist[p].nsignal = 1
  /\ \E p \in PEs : dist[p].addSent = EmptyMap
  /\ \E p \in PEs : dist[p].nrecv = 1 /\ m_npe[p] = 0

\* Members of PE p that request(), add() and lower() do not name
Untouched(p) ==
  << m_id[p], m_newid[p], m_reordered[p], m_chcid[p], m_upper[p], m_npe[p] >>

\* The event a handler has added to a log (before: b, after: c)
Arrived(b, c) ==
  CHOOSE e \in DOMAIN c : e \notin DOMAIN b \/ c[e] > b[e]

\* A step is the handler of one PE: the members, SDAG counters and records
\* of every other PE stay as they are, and of the messages another PE has
\* sent at most the handled one is taken out of the network
OnOnePe ==
  \E p \in PEs : \A q \in PEs \ {p} :
    /\ Untouched(q)' = Untouched(q)
    /\ m_node'[q] = m_node[q] /\ m_req'[q] = m_req[q]
    /\ m_lower'[q] = m_lower[q] /\ m_cost'[q] = m_cost[q]
    /\ sdag'[q] = sdag[q] /\ hist'[q] = hist[q] /\ dist'[q] = dist[q]
    /\ \A r \in PEs :
         \/ chan'[<< q, r >>] = chan[<< q, r >>]
         \/ /\ r = p
            /\ chan[<< q, r >>] # << >>
            /\ chan'[<< q, r >>] = Tail(chan[<< q, r >>])

\* add() on PE p: only the lists of the chares named in the message change
AddFrame(p) ==
  dist'[p].addRecv # dist[p].addRecv =>
    LET e == Arrived(dist[p].addRecv, dist'[p].addRecv)
    IN  /\ Untouched(p)' = Untouched(p)
        /\ m_req'[p] = m_req[p]
        /\ m_lower'[p] = m_lower[p] /\ m_cost'[p] = m_cost[p]
        /\ DOMAIN m_node'[p] \subseteq (DOMAIN m_node[p]) \cup (DOMAIN e[2])
        /\ \A c \in (DOMAIN m_node[p]) \ (DOMAIN e[2]) :
             c \in DOMAIN m_node'[p] /\ m_node'[p][c] = m_node[p][c]

\* C35 as stated: every step is local to one PE; request() appends one
\* entry to m_req and changes no other member; add() changes only the
\* lists of the chares named in the message; lower() changes only m_lower.
C35_HandlersLocal ==
  [][/\ OnOnePe
     /\ \A p \in PEs :
          /\ hist'[p].reqRecv # hist[p].reqRecv =>
               LET e == Arrived(hist[p].reqRecv, hist'[p].reqRecv)
               IN  /\ m_req'[p] = Append(m_req[p], << e[1], e[2] >>)
                   /\ Untouched(p)' = Untouched(p)
                   /\ m_node'[p] = m_node[p]
                   /\ m_lower'[p] = m_lower[p] /\ m_cost'[p] = m_cost[p]
          /\ AddFrame(p)
          /\ hist'[p].lowRecv # hist[p].lowRecv =>
               LET e == Arrived(hist[p].lowRecv, hist'[p].lowRecv)
               IN  /\ m_lower'[p] = e[2]
                   /\ Untouched(p)' = Untouched(p)
                   /\ m_node'[p] = m_node[p] /\ m_req'[p] = m_req[p]
                   /\ m_cost'[p] = m_cost[p]]_vars

\* C35 amended: every step is local to one PE; request() changes only
\* m_req, appending one entry before the assignment loop of the PE has run
\* and leaving m_req empty, with one more reply sent, after it (prepare()
\* runs in the same step); add() changes only the lists of the chares named
\* in the message; lower() changes m_lower and, if the PE already has its
\* upper bound, m_cost (create() runs in the same step), nothing else.
C35_HandlersLocalWithContinuation ==
  [][/\ OnOnePe
     /\ \A p \in PEs :
          /\ hist'[p].reqRecv # hist[p].reqRecv =>
               LET e == Arrived(hist[p].reqRecv, hist'[p].reqRecv)
               IN  /\ m_req'[p] = (IF started[p] THEN << >>
                                   ELSE Append(m_req[p], << e[1], e[2] >>))
                   /\ LogSize(hist'[p].repSent) =
                        LogSize(hist[p].repSent) + (IF started[p] THEN 1 ELSE 0)
                   /\ Untouched(p)' = Untouched(p)
                   /\ m_node'[p] = m_node[p]
                   /\ m_lower'[p] = m_lower[p] /\ m_cost'[p] = m_cost[p]
          /\ AddFrame(p)
          /\ hist'[p].lowRecv # hist[p].lowRecv =>
               LET e == Arrived(hist[p].lowRecv, hist'[p].lowRecv)
               IN  /\ m_lower'[p] = e[2]
                   /\ Untouched(p)' = Untouched(p)
                   /\ m_node'[p] = m_node[p] /\ m_req'[p] = m_req[p]
                   /\ m_cost'[p] = (IF HasUpper(p)
                                    THEN cost(m_id[p], e[2], m_upper[p])
                                    ELSE m_cost[p])
                   /\ hist'[p].ncreate =
                        hist[p].ncreate + (IF HasUpper(p) THEN 1 ELSE 0)]_vars

\* C35 witness: a PE has answered, in the step of the request(), a request
\* that came after its assignment loop, and a PE that had its upper bound
\* has computed its cost in the step of lower().
C35_Witness ==
  /\ \E p \in PEs :
       /\ started[p] /\ m_req[p] = << >>
       /\ << 1, 1, TRUE >> \in DOMAIN hist[p].prep
  /\ \E p \in PEs :
       /\ hist[p].lowRecv # EmptyMap
       /\ hist[p].ncreate = 1
       /\ m_cost[p][2] > 0

====
